---- MODULE Spec2Model ----
(***************************************************************************)
(* Week-down scanner: the three scripts news_scanner.py,                   *)
(* news_scanner_hybrid.py and hybrid_news_scanner.py.  Each script is a    *)
(* single batch pass: collect candidates from its sources, ask the         *)
(* reasoning service to rank them, extract the array from the reply and    *)
(* send one record per story to the store.                                 *)
(*                                                                         *)
(* Python values are modelled as follows.  A dict is a record that holds   *)
(* only the keys that are present; d.get(k, default) is Get(d, k, default).*)
(* A JSON value is tagged: Str, Num, List, Null; a JSON object is a dict.   *)
(* Text                                                                    *)
(* is a TLA+ string, with "~" standing for the backquote character.        *)
(***************************************************************************)
EXTENDS Integers, Sequences, FiniteSets, TLC

VARIABLES
    script,      \* which of the three scripts is running
    pc,          \* position of the run
    f_fn,        \* source adapter being executed
    f_i,         \* number of sources the adapter's loop has finished
    f_stories,   \* the adapter's local list (stories / viral_posts)
    f_asked,     \* the sources asked so far, in the order they were asked
    f_failed,    \* one of them threw inside the try
    f_expect,    \* history: the items of the answers so far that pass the gate
    f_nraw,      \* raw items received so far
    f_escaped,   \* an exception left the adapter
    f_returned,  \* the adapter's return value
    p_stories,   \* send_to_airtable: the stories it was given
    p_viral,     \* send_to_airtable: the viral_posts it was given (hybrid only)
    p_i,         \* stories the first loop has handled
    p_j,         \* viral posts the second loop has handled
    p_sent,      \* the upserts issued: the record and whether the store accepted it
    p_success,   \* success_count
    p_raised,    \* an exception left send_to_airtable
    p_report,    \* the success line printed at the end
    a_prompt,    \* the candidates the prompt of the request enumerates
    a_calls,     \* requests sent to the reasoning service
    a_status,    \* status of its response
    a_logged,    \* the error lines (status, body prefix) were printed
    a_blocks,    \* data['content'] of the response
    a_parts,     \* history: the pieces the text of the reply was made of
    a_text,      \* json_text as selected from the content blocks
    a_search,    \* json_text as handed to re.search
    a_match,     \* json_match.group(0), the text handed to json.loads
    a_err,       \* the error the ranking function raised, "" while none
    a_stories,   \* the array it returned
    m_cfg,       \* the values of the three environment variables
    m_reddit,    \* main: reddit_stories
    m_news,      \* main: news_stories
    m_viral,     \* main: viral_posts
    m_error      \* the error main ended with, "" while none

fetchVars ==
    <<f_fn, f_i, f_stories, f_asked, f_failed, f_expect, f_nraw, f_escaped, f_returned>>
persistVars == <<p_stories, p_viral, p_i, p_j, p_sent, p_success, p_raised, p_report>>
analyzeVars ==
    <<a_prompt, a_calls, a_status, a_logged, a_blocks, a_parts, a_text, a_search, a_match,
      a_err, a_stories>>
mainVars == <<m_cfg, m_reddit, m_news, m_viral, m_error>>
vars == <<script, pc, fetchVars, persistVars, analyzeVars, mainVars>>

(***************************************************************************)
(* Bounds of the model.                                                    *)
(***************************************************************************)
\* raw items one adapter run receives over all its sources
MaxPosts == 4
\* content blocks of a reply
MaxBlocks == 3
\* items of the array handed to send_to_airtable
MaxStories == 3

(***************************************************************************)
(* Generic helpers.                                                        *)
(***************************************************************************)
\* dict.get(k, default)
Get(d, k, default) == IF k \in DOMAIN d THEN d[k] ELSE default

\* the empty dict {}
EmptyDict == <<>>

\* s[:n]
Slice(s, n) == IF Len(s) <= n THEN s ELSE SubSeq(s, 1, n)

SeqsUpTo(S, n) == UNION {[1..k -> S] : k \in 0..n}

Min(a, b) == IF a <= b THEN a ELSE b

Range(s) == {s[i] : i \in 1..Len(s)}

Count(x, s) == Cardinality({i \in 1..Len(s) : s[i] = x})

\* an element of a parsed JSON list that is not a mapping has no .get
IsDict(v) == DOMAIN v \cap {"nondict", "str", "int", "list", "null"} = {}

\* c * n
RECURSIVE Rep(_, _)
Rep(c, n) ==
    IF n = 0 THEN ""
    ELSE IF n % 2 = 0 THEN LET h == Rep(c, n \div 2) IN h \o h
    ELSE c \o Rep(c, n - 1)

(***************************************************************************)
(* Configuration of the scripts.                                           *)
(***************************************************************************)
REDDIT_SUBS == <<"politics", "news", "worldnews">>

REDDIT_VIRAL_SUBS ==
    <<"all", "meirl", "facepalm", "WhitePeopleTwitter", "BlackPeopleTwitter",
      "LateStageCapitalism">>

\* keys of GOOGLE_RSS_FEEDS of hybrid_news_scanner.py, in insertion order
GOOGLE_RSS_FEEDS == <<"politics", "economy", "tech", "international">>

\* keys of GOOGLE_RSS_FEEDS of news_scanner_hybrid.py, in insertion order
GOOGLE_RSS_FEEDS_RSS ==
    <<"politics", "economy", "healthcare", "tech_policy", "international",
      "middle_east">>

RedditMinScore == 100
ViralMinScore == 500
ViralTop == 3
FeedCap == 8
FeedCapRss == 6
SummaryCap == 200
SummaryCapRss == 300

Scripts == {"news_scanner", "news_scanner_hybrid", "hybrid_news_scanner"}

Adapters ==
    { [script |-> "hybrid_news_scanner", fn |-> "fetch_reddit_stories"],
      [script |-> "hybrid_news_scanner", fn |-> "fetch_viral_reddit"],
      [script |-> "hybrid_news_scanner", fn |-> "fetch_google_news"],
      [script |-> "news_scanner_hybrid", fn |-> "fetch_google_news"] }

\* the list an adapter iterates over
Sources(s, fn) ==
    CASE fn = "fetch_reddit_stories" -> REDDIT_SUBS
      [] fn = "fetch_viral_reddit" -> REDDIT_VIRAL_SUBS
      [] fn = "fetch_google_news" /\ s = "hybrid_news_scanner" -> GOOGLE_RSS_FEEDS
      [] OTHER -> GOOGLE_RSS_FEEDS_RSS

(***************************************************************************)
(* Source adapters: one loop iteration (the body of the try) per source.   *)
(***************************************************************************)
\* fetch_reddit_stories: "Skip stickied posts and low-engagement posts"
RedditSkip(post_data) ==
    \/ Get(post_data, "stickied", FALSE)
    \/ Get(post_data, "score", 0) < RedditMinScore

ViralSkipNoNsfw(post_data) ==
    \/ Get(post_data, "stickied", FALSE)
    \/ Get(post_data, "score", 0) < ViralMinScore

\* fetch_viral_reddit: "Skip stickied, NSFW, or very low engagement"
ViralSkip(post_data) ==
    \/ Get(post_data, "stickied", FALSE)
    \/ Get(post_data, "over_18", FALSE)
    \/ Get(post_data, "score", 0) < ViralMinScore

\* f"{score} upvotes, {num_comments} comments"
Engagement(post_data) ==
    [upvotes |-> Get(post_data, "score", 0),
     comments |-> Get(post_data, "num_comments", 0)]

RedditStory(post_data, subreddit) ==
    [source |-> "Reddit",
     subreddit |-> "r/" \o subreddit,
     title |-> Get(post_data, "title", ""),
     url |-> "https://reddit.com" \o Get(post_data, "permalink", ""),
     score |-> Get(post_data, "num_comments", 0),
     engagement |-> Engagement(post_data),
     category |-> IF subreddit = "politics" THEN "Political" ELSE "Social"]

ViralPost(post_data, subreddit) ==
    [source |-> "Reddit",
     subreddit |-> "r/" \o subreddit,
     title |-> Get(post_data, "title", ""),
     url |-> "https://reddit.com" \o Get(post_data, "permalink", ""),
     score |-> Get(post_data, "score", 0),
     comments |-> Get(post_data, "num_comments", 0),
     engagement |-> Engagement(post_data),
     category |-> "Culture"]

\* category.capitalize() of the feed keys
Capitalize(category) ==
    CASE category = "politics" -> "Politics"
      [] category = "economy" -> "Economy"
      [] category = "tech" -> "Tech"
      [] category = "international" -> "International"
      [] category = "healthcare" -> "Healthcare"
      [] category = "tech_policy" -> "Tech_policy"
      [] OTHER -> "Middle_east"

\* entry.get('summary', '')[:cap] if entry.get('summary') else ''
EntrySummary(entry, cap) ==
    IF Get(entry, "summary", "") # ""
    THEN Slice(Get(entry, "summary", ""), cap)
    ELSE ""

NewsStory(entry, category) ==
    [source |-> "Google News",
     category_tag |-> category,
     title |-> Get(entry, "title", ""),
     url |-> Get(entry, "link", ""),
     published |-> Get(entry, "published", ""),
     summary |-> EntrySummary(entry, SummaryCap),
     category |-> Capitalize(category)]

NewsStoryRss(entry, category) ==
    [category_tag |-> category,
     title |-> Get(entry, "title", ""),
     url |-> Get(entry, "link", ""),
     published |-> Get(entry, "published", ""),
     summary |-> EntrySummary(entry, SummaryCapRss)]

\* for post in data.get('data', {}).get('children', []): ... of either Reddit
\* adapter; a child that is no mapping raises at post.get
RECURSIVE RedditLoop(_, _, _, _, _)
RedditLoop(fn, acc, children, i, subreddit) ==
    IF i > Len(children) THEN [stories |-> acc, raised |-> FALSE]
    ELSE IF ~IsDict(children[i]) THEN [stories |-> acc, raised |-> TRUE]
    ELSE LET post_data == Get(children[i], "data", EmptyDict)
             skip == IF fn = "fetch_viral_reddit" THEN ViralSkip(post_data)
                     ELSE RedditSkip(post_data)
             item == IF fn = "fetch_viral_reddit" THEN ViralPost(post_data, subreddit)
                     ELSE RedditStory(post_data, subreddit)
         IN  RedditLoop(fn, IF skip THEN acc ELSE Append(acc, item),
                        children, i + 1, subreddit)

\* for entry in feed.entries[:cap]: stories.append({...})
RECURSIVE FeedLoop(_, _, _, _, _)
FeedLoop(s, acc, entries, i, category) ==
    IF i > Len(entries) THEN [stories |-> acc, raised |-> FALSE]
    ELSE IF ~IsDict(entries[i]) THEN [stories |-> acc, raised |-> TRUE]
    ELSE LET item == IF s = "hybrid_news_scanner" THEN NewsStory(entries[i], category)
                     ELSE NewsStoryRss(entries[i], category)
         IN  FeedLoop(s, Append(acc, item), entries, i + 1, category)

\* the try body of one source: the request, then the loop over what it returned
TryBody(s, fn, acc, answer, name) ==
    IF answer.http # "ok" THEN [stories |-> acc, raised |-> TRUE]
    ELSE IF fn = "fetch_google_news"
         THEN FeedLoop(s, acc,
                       Slice(answer.items, IF s = "hybrid_news_scanner"
                                           THEN FeedCap ELSE FeedCapRss),
                       1, name)
         ELSE RedditLoop(fn, acc, answer.items, 1, name)

ExceptReraise(r) == [stories |-> r.stories, escaped |-> r.raised]

\* except Exception as e: print(...); continue
ExceptContinue(r) == [stories |-> r.stories, escaped |-> FALSE]

\* viral_posts.sort(key=lambda x: x['score'] + x['comments'], reverse=True):
\* a stable sort, equal keys keep their order
ViralKey(x) == x.score + x.comments

RECURSIVE InsertDesc(_, _)
InsertDesc(sorted, x) ==
    IF sorted = <<>> THEN <<x>>
    ELSE IF ViralKey(Head(sorted)) >= ViralKey(x)
         THEN <<Head(sorted)>> \o InsertDesc(Tail(sorted), x)
         ELSE <<x>> \o sorted

RECURSIVE SortDesc(_)
SortDesc(s) ==
    IF s = <<>> THEN <<>>
    ELSE InsertDesc(SortDesc(SubSeq(s, 1, Len(s) - 1)), s[Len(s)])

AdapterResultNoSort(fn, acc) ==
    IF fn = "fetch_viral_reddit" THEN Slice(acc, ViralTop) ELSE acc

\* what the adapter returns after its loop
AdapterResult(fn, acc) ==
    IF fn = "fetch_viral_reddit" THEN Slice(SortDesc(acc), ViralTop) ELSE acc

(***************************************************************************)
(* What the sources may answer.                                            *)
(***************************************************************************)
NonDict == [nondict |-> TRUE]

Post(stickied, over_18, score, num_comments, permalink) ==
    [data |-> [stickied |-> stickied, over_18 |-> over_18, score |-> score,
               num_comments |-> num_comments, title |-> "t" \o permalink,
               permalink |-> permalink]]

\* children of a hot.json listing of fetch_reddit_stories
RedditChildren ==
    { Post(FALSE, FALSE, 99, 7, "/a"),
      Post(FALSE, FALSE, 100, 3, "/b"),
      Post(TRUE, FALSE, 900, 9, "/c"),
      [data |-> [over_18 |-> TRUE, score |-> 250, permalink |-> "/d"]],
      [data |-> [title |-> "t/e", permalink |-> "/e"]],
      NonDict }

\* children of a hot.json listing of fetch_viral_reddit
ViralChildren ==
    { Post(FALSE, FALSE, 499, 90, "/a"),
      Post(FALSE, FALSE, 500, 1, "/b"),
      [data |-> [score |-> 600, title |-> "", permalink |-> "/c"]],
      Post(TRUE, FALSE, 900, 9, "/d"),
      Post(FALSE, TRUE, 900, 9, "/e"),
      NonDict }

LongSummary == Rep("s", SummaryCapRss + 1)

\* entries of a parsed feed
FeedEntries ==
    { [title |-> "g1", link |-> "http://g/1", published |-> "Mon", summary |-> "s"],
      [link |-> "http://g/2", summary |-> LongSummary],
      NonDict }

ItemsOf(fn) ==
    CASE fn = "fetch_reddit_stories" -> RedditChildren
      [] fn = "fetch_viral_reddit" -> ViralChildren
      [] OTHER -> FeedEntries

\* an answer: the request fails (timeout, non-2xx, unparsable body), or a listing
Answers(fn, budget) ==
    {[http |-> "error", items |-> <<>>]}
    \cup {[http |-> "ok", items |-> l] : l \in SeqsUpTo(ItemsOf(fn), budget)}

(***************************************************************************)
(* History of an adapter run, stated on the raw answers: the items of an   *)
(* answer that come before its first malformed item, that are within the   *)
(* per-feed cap and that pass the admission gate.                          *)
(***************************************************************************)
RECURSIVE GoodPrefix(_)
GoodPrefix(items) ==
    IF items = <<>> \/ ~IsDict(Head(items)) THEN <<>>
    ELSE <<Head(items)>> \o GoodPrefix(Tail(items))

PassesGate(fn, item) ==
    LET d == Get(item, "data", EmptyDict)
        stickied == "stickied" \in DOMAIN d /\ d.stickied
        nsfw == "over_18" \in DOMAIN d /\ d.over_18
        score == IF "score" \in DOMAIN d THEN d.score ELSE 0
    IN  CASE fn = "fetch_reddit_stories" -> ~stickied /\ ~(score < 100)
          [] fn = "fetch_viral_reddit" -> ~stickied /\ ~nsfw /\ ~(score < 500)
          [] OTHER -> TRUE

Candidate(s, fn, item, name) ==
    CASE fn = "fetch_reddit_stories" -> RedditStory(Get(item, "data", EmptyDict), name)
      [] fn = "fetch_viral_reddit" -> ViralPost(Get(item, "data", EmptyDict), name)
      [] fn = "fetch_google_news" /\ s = "hybrid_news_scanner" -> NewsStory(item, name)
      [] OTHER -> NewsStoryRss(item, name)

Threw(answer) ==
    answer.http # "ok" \/ \E i \in 1..Len(answer.items) : ~IsDict(answer.items[i])

ExpectedOf(s, fn, answer, name) ==
    LET capped == IF fn # "fetch_google_news" THEN answer.items
                  ELSE IF s = "hybrid_news_scanner" THEN Slice(answer.items, 8)
                  ELSE Slice(answer.items, 6)
        kept == SelectSeq(GoodPrefix(capped), LAMBDA c : PassesGate(fn, c))
    IN  IF answer.http # "ok" THEN <<>>
        ELSE [k \in 1..Len(kept) |-> Candidate(s, fn, kept[k], name)]

(***************************************************************************)
(* Values of a parsed JSON reply: text, number, null, list.                *)
(***************************************************************************)
Str(s) == [str |-> s]
Num(n) == [int |-> n]
List(l) == [list |-> l]
Null == [null |-> TRUE]

IsStr(v) == "str" \in DOMAIN v
IsInt(v) == "int" \in DOMAIN v
IsList(v) == "list" \in DOMAIN v

\* bool(v)
Truthy(v) ==
    CASE IsStr(v) -> v.str # ""
      [] IsInt(v) -> v.int # 0
      [] IsList(v) -> v.list # <<>>
      [] OTHER -> FALSE

\* v[:n] is a TypeError unless v is text (or a list)
SliceRaises(v) == ~(IsStr(v) \/ IsList(v))

SliceVWhole(v, n) == v

\* v[:n]
SliceV(v, n) ==
    CASE IsStr(v) -> Str(Slice(v.str, n))
      [] IsList(v) -> List(Slice(v.list, n))
      [] OTHER -> v

\* str(v) inside an f-string
Format(v) ==
    CASE IsStr(v) -> v.str
      [] IsInt(v) -> ToString(v.int)
      [] IsList(v) -> "[...]"
      [] OTHER -> "None"

(***************************************************************************)
(* The adapters as actions.                                                *)
(***************************************************************************)
FetchIdle ==
    /\ f_fn = "" /\ f_i = 0 /\ f_stories = <<>> /\ f_asked = <<>>
    /\ f_failed = FALSE /\ f_expect = <<>> /\ f_nraw = 0
    /\ f_escaped = FALSE /\ f_returned = <<>>

PersistIdle ==
    /\ p_stories = <<>> /\ p_viral = <<>> /\ p_i = 0 /\ p_j = 0 /\ p_sent = <<>>
    /\ p_success = 0 /\ p_raised = FALSE /\ p_report = <<>>

NoParts == [lead |-> "", open |-> "", payload |-> "", close |-> "", trail |-> ""]

\* a prompt that enumerates nothing
EmptyPrompt == [reddit |-> <<>>, news |-> <<>>, viral |-> <<>>]

AnalyzeIdle ==
    /\ a_prompt = EmptyPrompt
    /\ a_calls = 0 /\ a_status = 0 /\ a_logged = FALSE /\ a_blocks = <<>>
    /\ a_parts = NoParts /\ a_text = "" /\ a_search = "" /\ a_match = ""
    /\ a_err = "" /\ a_stories = <<>>

\* os.getenv(name): None when the variable is unset, else its text
EnvValues == {Null, Str(""), Str("secret")}

AllSet ==
    [CLAUDE_API_KEY |-> Str("secret"), AIRTABLE_TOKEN |-> Str("secret"),
     AIRTABLE_BASE_ID |-> Str("secret")]

MainIdle ==
    /\ m_cfg = AllSet /\ m_reddit = <<>> /\ m_news = <<>> /\ m_viral = <<>>
    /\ m_error = ""

FetchInit ==
    /\ \E a \in Adapters : script = a.script /\ f_fn = a.fn
    /\ PersistIdle /\ AnalyzeIdle /\ MainIdle
    /\ pc = "fetch"
    /\ f_i = 0
    /\ f_stories = <<>>
    /\ f_asked = <<>>
    /\ f_failed = FALSE
    /\ f_expect = <<>>
    /\ f_nraw = 0
    /\ f_escaped = FALSE
    /\ f_returned = <<>>

\* one iteration of "for subreddit in ...: try: ... except Exception: continue"
FetchSource ==
    /\ pc = "fetch"
    /\ f_i < Len(Sources(script, f_fn))
    /\ \E answer \in Answers(f_fn, MaxPosts - f_nraw) :
         LET name == Sources(script, f_fn)[f_i + 1]
             r == ExceptContinue(TryBody(script, f_fn, f_stories, answer, name))
         IN  /\ f_stories' = r.stories
             /\ f_escaped' = r.escaped
             /\ pc' = IF r.escaped THEN "raised" ELSE "fetch"
             /\ f_asked' = Append(f_asked, name)
             /\ f_failed' = (f_failed \/ Threw(answer))
             /\ f_expect' = f_expect \o ExpectedOf(script, f_fn, answer, name)
             /\ f_nraw' = f_nraw + Len(answer.items)
             /\ f_i' = f_i + 1
    /\ UNCHANGED <<script, f_fn, f_returned, persistVars, analyzeVars, mainVars>>

\* the code after the loop: (sort, top 3 and) return
FetchReturn ==
    /\ pc = "fetch"
    /\ f_i = Len(Sources(script, f_fn))
    /\ f_returned' = AdapterResult(f_fn, f_stories)
    /\ pc' = "returned"
    /\ UNCHANGED <<script, f_fn, f_i, f_stories, f_asked, f_failed, f_expect,
                   f_nraw, f_escaped, persistVars, analyzeVars, mainVars>>

FetchNext == FetchSource \/ FetchReturn

SpecFetch == FetchInit /\ [][FetchNext]_vars

(***************************************************************************)
(* Text operations of the ranking client.                                  *)
(***************************************************************************)
\* s[i-1:i], "" outside the text
Ch(s, i) == IF 1 <= i /\ i <= Len(s) THEN SubSeq(s, i, i) ELSE ""

StartsAt(s, pat, i) ==
    /\ 1 <= i /\ i + Len(pat) - 1 <= Len(s)
    /\ SubSeq(s, i, i + Len(pat) - 1) = pat

Least(S) == CHOOSE m \in S : \A x \in S : m <= x

Greatest(S) == CHOOSE m \in S : \A x \in S : x <= m

\* s.find(pat) + 1: the position of the first occurrence, 0 when there is none
Find(s, pat) ==
    LET hits == {i \in 1..Len(s) : StartsAt(s, pat, i)}
    IN  IF hits = {} THEN 0 ELSE Least(hits)

\* pat in s
Contains(s, pat) == Find(s, pat) # 0

\* s.split(pat)[0]
Before(s, pat) == IF Contains(s, pat) THEN SubSeq(s, 1, Find(s, pat) - 1) ELSE s

\* what follows the first occurrence of pat
After(s, pat) == SubSeq(s, Find(s, pat) + Len(pat), Len(s))

\* s.split(pat)[1], for a text that contains pat
Split1(s, pat) == Before(After(s, pat), pat)

IsSpace(c) == c \in {" ", "\n", "\t"}

\* s.strip()
Strip(s) ==
    LET solid == {i \in 1..Len(s) : ~IsSpace(Ch(s, i))}
    IN  IF solid = {} THEN "" ELSE SubSeq(s, Least(solid), Greatest(solid))

\* the three backquotes of a code fence
FENCE == "~~~"
FENCE_JSON == "~~~json"

StripFenceAnyFirst(t) ==
    IF Contains(t, FENCE) THEN Before(Split1(t, FENCE), FENCE) ELSE t

StripFenceJsonOnly(t) ==
    IF Contains(t, FENCE_JSON) THEN Before(Split1(t, FENCE_JSON), FENCE) ELSE t

\* "Remove markdown if present"
StripFence(t) ==
    IF Contains(t, FENCE_JSON) THEN Before(Split1(t, FENCE_JSON), FENCE)
    ELSE IF Contains(t, FENCE) THEN Before(Split1(t, FENCE), FENCE)
    ELSE t

BracketMatchLazy(t) ==
    LET a == Find(t, "[")
        closers == {i \in 1..Len(t) : Ch(t, i) = "]" /\ i > a}
    IN  IF a = 0 \/ closers = {} THEN [found |-> FALSE, text |-> ""]
        ELSE [found |-> TRUE, text |-> SubSeq(t, a, Least(closers))]

\* re.search(r'\[.*\]', t, re.DOTALL): from the first "[" to the last "]"
BracketMatch(t) ==
    LET a == Find(t, "[")
        closers == {i \in 1..Len(t) : Ch(t, i) = "]" /\ i > a}
    IN  IF a = 0 \/ closers = {} THEN [found |-> FALSE, text |-> ""]
        ELSE [found |-> TRUE, text |-> SubSeq(t, a, Greatest(closers))]

(***************************************************************************)
(* json.loads, for the JSON this model writes: arrays, objects, texts      *)
(* without escapes, non-negative integers and null.                        *)
(***************************************************************************)
Digits == "0123456789"

IsDigit(c) == Len(c) = 1 /\ Contains(Digits, c)

ParseFail == [ok |-> FALSE, val |-> Null, next |-> 0]

\* the first position from i on that holds no white space
SkipWs(s, i) ==
    LET solid == {j \in i..Len(s) : ~IsSpace(Ch(s, j))}
    IN  IF solid = {} THEN Len(s) + 1 ELSE Least(solid)

RECURSIVE NumVal(_, _, _)
NumVal(s, i, j) ==
    IF j < i THEN 0 ELSE NumVal(s, i, j - 1) * 10 + (Find(Digits, Ch(s, j)) - 1)

ParseNumber(s, i) ==
    LET stops == {j \in i..(Len(s) + 1) : ~IsDigit(Ch(s, j))}
        end == Least(stops) - 1
    IN  IF Ch(s, i) = "0" /\ end > i THEN ParseFail
        ELSE [ok |-> TRUE, val |-> Num(NumVal(s, i, end)), next |-> end + 1]

ParseString(s, i) ==
    LET quotes == {j \in (i + 1)..Len(s) : Ch(s, j) = "\""}
        end == Least(quotes)
    IN  IF Ch(s, i) # "\"" \/ quotes = {} THEN ParseFail
        ELSE IF \E j \in (i + 1)..(end - 1) : Ch(s, j) \in {"\n", "\t"} THEN ParseFail
        ELSE [ok |-> TRUE, val |-> Str(SubSeq(s, i + 1, end - 1)), next |-> end + 1]

RECURSIVE ParseValue(_, _)
RECURSIVE ParseElements(_, _, _)
RECURSIVE ParseMembers(_, _, _)

\* the value that starts at position i
ParseValue(s, i) ==
    LET c == Ch(s, i) IN
    CASE c = "[" ->
            LET j == SkipWs(s, i + 1)
            IN  IF Ch(s, j) = "]" THEN [ok |-> TRUE, val |-> List(<<>>), next |-> j + 1]
                ELSE ParseElements(s, j, <<>>)
      [] c = "{" ->
            LET j == SkipWs(s, i + 1)
            IN  IF Ch(s, j) = "}" THEN [ok |-> TRUE, val |-> EmptyDict, next |-> j + 1]
                ELSE ParseMembers(s, j, EmptyDict)
      [] c = "\"" -> ParseString(s, i)
      [] IsDigit(c) -> ParseNumber(s, i)
      [] StartsAt(s, "null", i) -> [ok |-> TRUE, val |-> Null, next |-> i + 4]
      [] OTHER -> ParseFail

\* the elements of an array from position i on, up to its "]"
ParseElements(s, i, acc) ==
    LET v == ParseValue(s, i)
        j == SkipWs(s, v.next)
    IN  IF ~v.ok THEN ParseFail
        ELSE IF Ch(s, j) = "," THEN ParseElements(s, SkipWs(s, j + 1), Append(acc, v.val))
        ELSE IF Ch(s, j) = "]"
             THEN [ok |-> TRUE, val |-> List(Append(acc, v.val)), next |-> j + 1]
        ELSE ParseFail

\* the members of an object from position i on, up to its "}"
ParseMembers(s, i, acc) ==
    LET k == ParseString(s, i)
        c == SkipWs(s, k.next)
        v == ParseValue(s, SkipWs(s, c + 1))
        j == SkipWs(s, v.next)
        d == (k.val.str :> v.val) @@ acc
    IN  IF ~k.ok \/ Ch(s, c) # ":" THEN ParseFail
        ELSE IF ~v.ok THEN ParseFail
        ELSE IF Ch(s, j) = "," THEN ParseMembers(s, SkipWs(s, j + 1), d)
        ELSE IF Ch(s, j) = "}" THEN [ok |-> TRUE, val |-> d, next |-> j + 1]
        ELSE ParseFail

\* json.loads(s)
JsonLoads(s) ==
    LET v == ParseValue(s, SkipWs(s, 1))
    IN  IF v.ok /\ SkipWs(s, v.next) > Len(s) THEN [ok |-> TRUE, val |-> v.val]
        ELSE [ok |-> FALSE, val |-> Null]

(***************************************************************************)
(* The ranking function after the response has arrived.                    *)
(***************************************************************************)
\* response.raise_for_status(): HTTPError for 400 <= status < 600
RaisesForStatus(status) == 400 <= status /\ status < 600

\* if response.status_code != 200: print the status and response.text[:500]
LogsError(status) == status # 200

TextBlocks(blocks) == {k \in 1..Len(blocks) : Get(blocks[k], "type", "") = "text"}

SelectTextFirst(s, blocks) ==
    IF TextBlocks(blocks) = {} THEN [found |-> FALSE, text |-> ""]
    ELSE [found |-> TRUE, text |-> Get(blocks[Least(TextBlocks(blocks))], "text", "")]

\* the loop over content_blocks (reversed in news_scanner.py) with its break
SelectText(s, blocks) ==
    IF TextBlocks(blocks) = {} THEN [found |-> FALSE, text |-> ""]
    ELSE LET k == IF s = "news_scanner" THEN Greatest(TextBlocks(blocks))
                  ELSE Least(TextBlocks(blocks))
         IN  [found |-> TRUE, text |-> Get(blocks[k], "text", "")]

\* if not json_text: raise ValueError("No text content ...")
NoText(sel) == ~sel.found \/ sel.text = ""

ExtractArrayLenient(json_text) ==
    LET m == BracketMatch(StripFence(Strip(json_text)))
        parsed == JsonLoads(Strip(m.text))
    IN  IF ~m.found THEN [err |-> "", stories |-> <<>>]
        ELSE IF ~parsed.ok THEN [err |-> "MalformedPayload", stories |-> <<>>]
        ELSE [err |-> "", stories |-> parsed.val.list]

\* strip, remove the fence, find the array, parse it
ExtractArray(json_text) ==
    LET m == BracketMatch(StripFence(Strip(json_text)))
        parsed == JsonLoads(Strip(m.text))
    IN  IF ~m.found THEN [err |-> "NoStructuredArray", stories |-> <<>>]
        ELSE IF ~parsed.ok THEN [err |-> "MalformedPayload", stories |-> <<>>]
        ELSE [err |-> "", stories |-> parsed.val.list]

(***************************************************************************)
(* What the reasoning service may reply.                                   *)
(***************************************************************************)
Leads == {"", "Here:\n", "a] [b ", "~~~sh\nls\n~~~\n"}
Opens == {"", "~~~\n", "~~~json\n", "~~~text\n"}
Closes == {"", "\n~~~"}
Trails == {"", "\nDone.", " ]"}

\* payloads that are arrays, each with the array it denotes
ArrayPayloads ==
    { [text |-> "[1, 2]", value |-> <<Num(1), Num(2)>>],
      [text |-> "[]", value |-> <<>>],
      [text |-> "[3,\n 4]", value |-> <<Num(3), Num(4)>>],
      [text |-> "[[1], [2]]", value |-> <<List(<<Num(1)>>), List(<<Num(2)>>)>>],
      [text |-> "[{\"rank\": 1, \"headline\": \"h\"}]",
       value |-> <<[rank |-> Num(1), headline |-> Str("h")]>>],
      [text |-> "[\"~~~[2]~~~\"]", value |-> <<Str("~~~[2]~~~")>>] }

Payloads == {p.text : p \in ArrayPayloads} \cup {"", "[1", "{\"rank\": 1}", "[1] [2]"}

ReplyParts ==
    [lead : Leads, open : Opens, payload : Payloads, close : Closes, trail : Trails]

ReplyText(parts) ==
    parts.lead \o parts.open \o parts.payload \o parts.close \o parts.trail

BlockKinds ==
    { [type |-> "text", text |-> "[1]"],
      [type |-> "text", text |-> "[2]"],
      [type |-> "text", text |-> ""],
      [type |-> "tool_use", name |-> "web_search"] }

(***************************************************************************)
(* The ranking function as actions, from the parsed response on.           *)
(***************************************************************************)
ExtractInit ==
    /\ script \in Scripts
    /\ FetchIdle /\ PersistIdle /\ MainIdle
    /\ pc = "select"
    /\ a_prompt = EmptyPrompt
    /\ a_calls = 1 /\ a_status = 200 /\ a_logged = FALSE
    /\ \/ /\ a_parts \in ReplyParts
          /\ a_blocks = <<[type |-> "text", text |-> ReplyText(a_parts)]>>
       \/ /\ a_parts = NoParts
          /\ a_blocks \in SeqsUpTo(BlockKinds, MaxBlocks)
    /\ a_text = "" /\ a_search = "" /\ a_match = "" /\ a_err = "" /\ a_stories = <<>>

\* content_blocks = data.get('content', []); pick the text block; fail without
AnalyzeSelect ==
    /\ pc = "select"
    /\ LET sel == SelectText(script, a_blocks) IN
         IF NoText(sel)
         THEN /\ a_err' = "NoTextContent"
              /\ pc' = "raised"
              /\ UNCHANGED a_text
         ELSE /\ a_text' = sel.text
              /\ pc' = "extract"
              /\ UNCHANGED a_err
    /\ UNCHANGED <<script, fetchVars, persistVars, mainVars, a_prompt, a_calls, a_status,
                   a_logged, a_blocks, a_parts, a_search, a_match, a_stories>>

\* "Clean and parse JSON" up to "return stories"
AnalyzeExtract ==
    /\ pc = "extract"
    /\ LET r == ExtractArray(a_text) IN
         /\ a_search' = StripFence(Strip(a_text))
         /\ a_match' = BracketMatch(StripFence(Strip(a_text))).text
         /\ a_err' = r.err
         /\ a_stories' = r.stories
         /\ pc' = IF r.err = "" THEN "ranked" ELSE "raised"
    /\ UNCHANGED <<script, fetchVars, persistVars, mainVars, a_prompt, a_calls, a_status,
                   a_logged, a_blocks, a_parts, a_text>>

ExtractNext == AnalyzeSelect \/ AnalyzeExtract

SpecExtract == ExtractInit /\ [][ExtractNext]_vars

(***************************************************************************)
(* send_to_airtable.                                                       *)
(***************************************************************************)
HeadlineCap == 255
TextCap == 5000
ViralTitleCap == 200
ViralFirstRank == 14
ViralScore == 100
DefaultScore == 50

\* datetime.now().strftime('%Y-%m-%d')
Today == Str("today")

\* if not story.get('headline'): ... continue
MissingHeadline(story) == ~Truthy(Get(story, "headline", Null))

\* building the record raises when a sliced value is no text
RecordRaises(s, story) ==
    \/ SliceRaises(Get(story, "headline", Str("Untitled")))
    \/ SliceRaises(Get(story, "summary", Str("")))
    \/ SliceRaises(Get(story, "trending_reason", Str("")))
    \/ SliceRaises(Get(story, "comedy_angle", Str("")))
    \/ s = "news_scanner" /\ IsInt(Get(story, "sources", List(<<>>)))
                          /\ Truthy(Get(story, "sources", List(<<>>)))

\* the fields every script sets
CommonFields(story) ==
    ("Date" :> Today)
    @@ ("Rank" :> Get(story, "rank", Num(0)))
    @@ ("Headline" :> SliceV(Get(story, "headline", Str("Untitled")), HeadlineCap))
    @@ ("Summary" :> SliceV(Get(story, "summary", Str("")), TextCap))
    @@ ("Viral Score" :> Get(story, "viral_score", Num(DefaultScore)))
    @@ ("Why Trending" :> SliceV(Get(story, "trending_reason", Str("")), TextCap))
    @@ ("Comedy Angle" :> SliceV(Get(story, "comedy_angle", Str("")), TextCap))
    @@ ("Category" :> Get(story, "category", Str("Other")))
    @@ ("Status" :> Str("To Review"))

\* sources[k] of a list or of a text
Element(v, k) == IF IsList(v) THEN v.list[k] ELSE Str(SubSeq(v.str, k, k))

Size(v) == IF IsList(v) THEN Len(v.list) ELSE IF IsStr(v) THEN Len(v.str) ELSE 0

\* news_scanner.py: "Add sources if they exist"
SourceFields(story) ==
    LET sources == Get(story, "sources", List(<<>>))
        one == IF Truthy(sources) /\ Size(sources) > 0
               THEN ("Source 1" :> Element(sources, 1)) ELSE <<>>
        two == IF Truthy(sources) /\ Size(sources) > 1
               THEN ("Source 2" :> Element(sources, 2)) ELSE <<>>
    IN  one @@ two

\* the fields one script adds to the common ones
ScriptFields(s, story) ==
    CASE s = "news_scanner" -> SourceFields(story)
      [] s = "news_scanner_hybrid" ->
            ("Source 1" :> Get(story, "source_url", Str("")))
            @@ ("Notes" :> Str("Source: Google News RSS"))
      [] OTHER ->
            ("Source 1" :> Get(story, "source_url", Str("")))
            @@ ("Notes" :> Str("Source: " \o Format(Get(story, "original_source",
                                                         Str("Unknown")))))

RemoveNothing(fields) == fields

\* {k: v for k, v in record['fields'].items() if v is not None}
RemoveNone(fields) == [k \in {x \in DOMAIN fields : fields[x] # Null} |-> fields[k]]

StoryRecord(s, story) == RemoveNone(ScriptFields(s, story) @@ CommonFields(story))

\* f"{score} upvotes, {num_comments} comments"
EngagementText(e) == ToString(e.upvotes) \o " upvotes, " \o ToString(e.comments) \o " comments"

\* the record of the post enumerate(viral_posts, 14) numbers i
\* (the emoji that precedes "VIRAL:" in the headline is left out)
ViralRecord(post, i) ==
    ("Date" :> Today)
    @@ ("Rank" :> Num(i))
    @@ ("Headline" :> Str("VIRAL: " \o Slice(post.title, ViralTitleCap)))
    @@ ("Summary" :> Str("Trending on " \o post.subreddit \o " with "
                         \o EngagementText(post.engagement)
                         \o ". Pure virality pick - not editorial selection."))
    @@ ("Viral Score" :> Num(ViralScore))
    @@ ("Why Trending" :> Str("Top post on " \o post.subreddit
                              \o " - massive social media engagement"))
    @@ ("Comedy Angle" :> Str("Use this to stay culturally relevant or find unexpected angles"))
    @@ ("Category" :> Str(Get(post, "category", "Culture")))
    @@ ("Source 1" :> Str(post.url))
    @@ ("Status" :> Str("Viral Watch"))
    @@ ("Notes" :> Str("Source: Reddit Viral Watch | " \o post.subreddit))

\* i of "for i, post in enumerate(viral_posts, 14)" for the k-th post
ViralRank(k) == ViralFirstRank + k - 1

\* except Exception as e: print(...); continue  (around the upsert only)
UpsertCounts(ok) == IF ok THEN 1 ELSE 0

\* f"Successfully added {success_count}/{...}"
Report(s, success, stories, viral_posts) ==
    [success |-> success,
     total |-> IF s = "hybrid_news_scanner" THEN Len(stories) + Len(viral_posts)
               ELSE Len(stories)]

(***************************************************************************)
(* What the reply array may hold, and the promoted posts.                  *)
(***************************************************************************)
StoryItems ==
    { [rank |-> Num(13), headline |-> Str(Rep("h", HeadlineCap + 1)),
       summary |-> Str(Rep("s", TextCap + 1)),
       viral_score |-> Num(80), trending_reason |-> Str(Rep("r", TextCap + 1)),
       comedy_angle |-> Str(Rep("c", TextCap)), category |-> Str("Tech"),
       source_url |-> Str("http://x/1"), original_source |-> Str("Reddit"),
       sources |-> List(<<Str("http://x/1"), Str("http://y/1")>>)],
      [rank |-> Num(1), headline |-> Str("h2")],
      [rank |-> Num(1), headline |-> Str("h3"), category |-> Null,
       sources |-> List(<<Str("http://x/3")>>)],
      [rank |-> Num(2), summary |-> Str("s4")],
      [headline |-> Str("h5"), viral_score |-> Null, source_url |-> Null],
      [rank |-> Num(3), headline |-> Str("h6"), summary |-> Null] }

PromotedPosts ==
    { ViralPost([score |-> 600, num_comments |-> 20, title |-> "v1", permalink |-> "/v1"],
                "all") }

(***************************************************************************)
(* send_to_airtable as actions: one loop iteration each.                   *)
(***************************************************************************)
PersistInit ==
    /\ script \in Scripts
    /\ FetchIdle /\ AnalyzeIdle /\ MainIdle
    /\ pc = "send"
    /\ p_stories \in SeqsUpTo(StoryItems, MaxStories)
    /\ p_viral \in IF script = "hybrid_news_scanner"
                   THEN SeqsUpTo(PromotedPosts, ViralTop) ELSE {<<>>}
    /\ p_i = 0 /\ p_j = 0 /\ p_sent = <<>> /\ p_success = 0
    /\ p_raised = FALSE /\ p_report = <<>>

\* one iteration of "for story in stories"
PersistStory ==
    /\ pc = "send"
    /\ p_i < Len(p_stories)
    /\ LET story == p_stories[p_i + 1] IN
         IF ~IsDict(story) \/ (~MissingHeadline(story) /\ RecordRaises(script, story))
         THEN /\ p_raised' = TRUE
              /\ pc' = "raised"
              /\ UNCHANGED <<p_i, p_sent, p_success>>
         ELSE IF MissingHeadline(story)
         THEN /\ p_i' = p_i + 1
              /\ UNCHANGED <<pc, p_sent, p_success, p_raised>>
         ELSE \E ok \in BOOLEAN :
              /\ p_sent' = Append(p_sent, [record |-> StoryRecord(script, story),
                                           ok |-> ok, promoted |-> FALSE])
              /\ p_success' = p_success + UpsertCounts(ok)
              /\ p_i' = p_i + 1
              /\ UNCHANGED <<pc, p_raised>>
    /\ UNCHANGED <<script, fetchVars, analyzeVars, mainVars, p_stories, p_viral, p_j, p_report>>

\* one iteration of "for i, post in enumerate(viral_posts, 14)"
PersistViral ==
    /\ pc = "send"
    /\ script = "hybrid_news_scanner"
    /\ p_i = Len(p_stories)
    /\ p_j < Len(p_viral)
    /\ \E ok \in BOOLEAN :
         /\ p_sent' = Append(p_sent, [record |-> ViralRecord(p_viral[p_j + 1],
                                                             ViralRank(p_j + 1)),
                                      ok |-> ok, promoted |-> TRUE])
         /\ p_success' = p_success + UpsertCounts(ok)
    /\ p_j' = p_j + 1
    /\ UNCHANGED <<script, pc, fetchVars, analyzeVars, mainVars, p_stories, p_viral, p_i,
                   p_raised, p_report>>

\* the success line after the loops
PersistFinish ==
    /\ pc = "send"
    /\ p_i = Len(p_stories)
    /\ script = "hybrid_news_scanner" => p_j = Len(p_viral)
    /\ p_report' = Report(script, p_success, p_stories, p_viral)
    /\ pc' = "sent"
    /\ UNCHANGED <<script, fetchVars, analyzeVars, mainVars, p_stories, p_viral, p_i, p_j, p_sent,
                   p_success, p_raised>>

PersistNext == PersistStory \/ PersistViral \/ PersistFinish

SpecPersist == PersistInit /\ [][PersistNext]_vars

(***************************************************************************)
(* The prompt of analyze_with_claude: which candidates it enumerates.       *)
(***************************************************************************)
PromptSocialCap == 15
PromptNewsCap == 30
PromptSummaryCapRss == 200

\* f"{i}. [{story['subreddit']}] {story['title']}", Engagement, URL
SocialEntry(i, story) ==
    [n |-> i, tag |-> story.subreddit, title |-> story.title,
     detail |-> "Engagement: " \o EngagementText(story.engagement), url |-> story.url]

\* f"{i}. [{story['category_tag']}] {story['title']}", the summary if any, URL
NewsEntry(s, i, story) ==
    [n |-> i, tag |-> story.category_tag, title |-> story.title,
     detail |-> IF Get(story, "summary", "") = "" THEN ""
                ELSE IF s = "hybrid_news_scanner" THEN "Summary: " \o story.summary
                ELSE Slice(story.summary, PromptSummaryCapRss),
     url |-> story.url]

\* f"{i}. [{post['subreddit']}] {post['title']}", engagement, URL
ViralEntry(i, post) ==
    [n |-> i, tag |-> post.subreddit, title |-> post.title,
     detail |-> EngagementText(post.engagement), url |-> post.url]

\* for i, story in enumerate(reddit_stories[:15], 1) / (news_stories[:30], 1) /
\* (viral_posts, 1); news_scanner_hybrid.py: enumerate(news_stories, 1);
\* news_scanner.py sends a fixed prompt
BuildPrompt(s, reddit, news, viral) ==
    CASE s = "hybrid_news_scanner" ->
            [reddit |-> [i \in 1..Len(Slice(reddit, PromptSocialCap)) |->
                            SocialEntry(i, reddit[i])],
             news |-> [i \in 1..Len(Slice(news, PromptNewsCap)) |->
                          NewsEntry(s, i, news[i])],
             viral |-> [i \in 1..Len(viral) |-> ViralEntry(i, viral[i])]]
      [] s = "news_scanner_hybrid" ->
            [reddit |-> <<>>,
             news |-> [i \in 1..Len(news) |-> NewsEntry(s, i, news[i])],
             viral |-> <<>>]
      [] OTHER -> EmptyPrompt

(***************************************************************************)
(* main: validate the configuration, run the stages in order, re-raise.    *)
(***************************************************************************)
ConfigKeys == <<"CLAUDE_API_KEY", "AIRTABLE_TOKEN", "AIRTABLE_BASE_ID">>

FirstMissingUnsetOnly(cfg) ==
    LET missing == {k \in 1..Len(ConfigKeys) : cfg[ConfigKeys[k]] = Null}
    IN  IF missing = {} THEN 0 ELSE Least(missing)

\* the first "if not X: raise ValueError(...)" that fires, 0 when none does
FirstMissing(cfg) ==
    LET missing == {k \in 1..Len(ConfigKeys) : ~Truthy(cfg[ConfigKeys[k]])}
    IN  IF missing = {} THEN 0 ELSE Least(missing)

\* the adapters main calls before the ranking call, in order
Stages(s) ==
    CASE s = "hybrid_news_scanner" ->
            <<"fetch_reddit_stories", "fetch_google_news", "fetch_viral_reddit">>
      [] s = "news_scanner_hybrid" -> <<"fetch_google_news">>
      [] OTHER -> <<>>

\* where main goes after the k-th adapter returned
StageAfter(s, k) == IF k < Len(Stages(s)) THEN Stages(s)[k + 1] ELSE "call"

StageIndex(s, fn) == Least({k \in 1..Len(Stages(s)) : Stages(s)[k] = fn})

\* the whole loop of an adapter over its sources
RECURSIVE AdapterLoop(_, _, _, _, _)
AdapterLoop(s, fn, acc, answers, i) ==
    IF i > Len(Sources(s, fn)) THEN [stories |-> acc, escaped |-> FALSE, asked |-> i - 1]
    ELSE LET r == ExceptContinue(TryBody(s, fn, acc, answers[i], Sources(s, fn)[i]))
         IN  IF r.escaped THEN [stories |-> r.stories, escaped |-> TRUE, asked |-> i]
             ELSE AdapterLoop(s, fn, r.stories, answers, i + 1)

\* one call of an adapter: its loop, then what it returns
RunAdapter(s, fn, answers) ==
    LET r == AdapterLoop(s, fn, <<>>, answers, 1)
    IN  [result |-> IF r.escaped THEN <<>> ELSE AdapterResult(fn, r.stories),
         escaped |-> r.escaped,
         asked |-> SubSeq(Sources(s, fn), 1, r.asked)]

\* what the sources of one adapter answer during a run of main: one source
\* (the first or the last) answers, the others fail
SourceAnswers(s, fn) ==
    LET n == Len(Sources(s, fn))
        failed == [http |-> "error", items |-> <<>>]
    IN  {[i \in 1..n |-> IF i = k THEN a ELSE failed] : k \in {1, n}, a \in Answers(fn, 1)}

\* status codes the reasoning service may answer with
Statuses == {200, 201, 300, 404, 529}

\* texts of the reply's text block
MainTexts ==
    { "[{\"rank\": 1, \"headline\": \"h\"}]",
      "~~~json\n[{\"rank\": 1, \"headline\": \"h\"}, {\"rank\": 2}]\n~~~",
      "Sorry, nothing today.",
      "] then [",
      "[see] ~~~\nnone\n~~~",
      "[1",
      "[oops]",
      "[1]",
      "[{\"rank\": 1, \"headline\": \"h\", \"summary\": null}]",
      "[]" }

MainBlocks ==
    {<<>>}
    \cup {<<[type |-> "text", text |-> t]>> : t \in MainTexts}
    \cup {<<[type |-> "tool_use", name |-> "web_search"], [type |-> "text", text |-> "[]"]>>}

\* response.json(): no JSON, a mapping without 'content', a mapping with it
Bodies ==
    {[json |-> FALSE], [json |-> TRUE, data |-> EmptyDict]}
    \cup {[json |-> TRUE, data |-> [content |-> b]] : b \in MainBlocks}

\* requests.post(...): the transport fails, or a response arrives
Responses ==
    {[transport |-> "timeout"]}
    \cup {[transport |-> "ok", status |-> st, body |-> b] : st \in Statuses, b \in Bodies}

Init ==
    /\ script \in Scripts
    /\ m_cfg \in [Range(ConfigKeys) -> EnvValues]
    /\ pc = "start"
    /\ FetchIdle /\ PersistIdle /\ AnalyzeIdle
    /\ m_reddit = <<>> /\ m_news = <<>> /\ m_viral = <<>> /\ m_error = ""

\* "Validate environment variables": raised before the try, so not re-raised
MainValidate ==
    /\ pc = "start"
    /\ LET k == FirstMissing(m_cfg) IN
         IF k # 0
         THEN /\ m_error' = ConfigKeys[k] \o " not set"
              /\ pc' = "exited"
         ELSE /\ pc' = StageAfter(script, 0)
              /\ UNCHANGED m_error
    /\ UNCHANGED <<script, fetchVars, persistVars, analyzeVars, m_cfg, m_reddit,
                   m_news, m_viral>>

\* reddit_stories = fetch_reddit_stories(), news_stories = fetch_google_news(),
\* viral_posts = fetch_viral_reddit()
MainFetch ==
    /\ pc \in Range(Stages(script))
    /\ \E answers \in SourceAnswers(script, pc) :
         LET r == RunAdapter(script, pc, answers) IN
           /\ m_reddit' = IF pc = "fetch_reddit_stories" THEN r.result ELSE m_reddit
           /\ m_news' = IF pc = "fetch_google_news" THEN r.result ELSE m_news
           /\ m_viral' = IF pc = "fetch_viral_reddit" THEN r.result ELSE m_viral
           /\ f_escaped' = r.escaped
           /\ f_asked' = f_asked \o r.asked
           /\ pc' = IF r.escaped THEN "raised"
                    ELSE StageAfter(script, StageIndex(script, pc))
    /\ UNCHANGED <<script, f_fn, f_i, f_stories, f_failed, f_expect, f_nraw,
                   f_returned, persistVars, analyzeVars, m_cfg, m_error>>

\* the ranking function up to data.get('content', []): prompt, post, log,
\* raise_for_status,
\* response.json()
AnalyzeCall ==
    /\ pc = "call"
    /\ a_prompt' = BuildPrompt(script, m_reddit, m_news, m_viral)
    /\ a_calls' = a_calls + 1
    /\ \E resp \in Responses :
         IF resp.transport # "ok"
         THEN /\ a_err' = "ServiceCallError"
              /\ pc' = "raised"
              /\ UNCHANGED <<a_status, a_logged, a_blocks>>
         ELSE /\ a_status' = resp.status
              /\ a_logged' = LogsError(resp.status)
              /\ IF RaisesForStatus(resp.status)
                 THEN /\ a_err' = "ServiceCallError"
                      /\ pc' = "raised"
                      /\ UNCHANGED a_blocks
                 ELSE IF ~resp.body.json
                 THEN /\ a_err' = "ResponseNotJson"
                      /\ pc' = "raised"
                      /\ UNCHANGED a_blocks
                 ELSE /\ a_blocks' = Get(resp.body.data, "content", <<>>)
                      /\ pc' = "select"
                      /\ UNCHANGED a_err
    /\ UNCHANGED <<script, fetchVars, persistVars, mainVars, a_parts, a_text, a_search,
                   a_match, a_stories>>

\* send_to_airtable(ranked_stories[, viral_posts]) is entered
MainSend ==
    /\ pc = "ranked"
    /\ p_stories' = a_stories
    /\ p_viral' = IF script = "hybrid_news_scanner" THEN m_viral ELSE <<>>
    /\ pc' = "send"
    /\ UNCHANGED <<script, fetchVars, analyzeVars, mainVars, p_i, p_j, p_sent, p_success,
                   p_raised, p_report>>

\* except Exception as e: print(...); raise
MainExcept ==
    /\ pc = "raised"
    /\ m_error' = IF f_escaped THEN "SourceError"
                  ELSE IF p_raised THEN "PersistError" ELSE a_err
    /\ pc' = "exited"
    /\ UNCHANGED <<script, fetchVars, persistVars, analyzeVars, m_cfg, m_reddit,
                   m_news, m_viral>>

\* the "NEWS SCAN COMPLETE" lines
MainComplete ==
    /\ pc = "sent"
    /\ pc' = "complete"
    /\ UNCHANGED <<script, fetchVars, persistVars, analyzeVars, mainVars>>

Next ==
    \/ MainValidate
    \/ MainFetch
    \/ AnalyzeCall
    \/ AnalyzeSelect
    \/ AnalyzeExtract
    \/ MainSend
    \/ PersistStory
    \/ PersistViral
    \/ PersistFinish
    \/ MainExcept
    \/ MainComplete

Spec == Init /\ [][Next]_vars

(***************************************************************************)
(* The prompt built for pools of every size up to one past the caps.       *)
(***************************************************************************)
MaxSocialPool == 16
MaxNewsPool == 31

\* the k-th entry of a feed; every second one carries a long summary
PoolEntry(k) ==
    [title |-> "g" \o ToString(k), link |-> "http://g/" \o ToString(k),
     published |-> "Mon", summary |-> IF k % 2 = 0 THEN LongSummary ELSE ""]

\* pools as the adapters of the script build them
SocialPool(n) ==
    [k \in 1..n |->
        RedditStory(Post(FALSE, FALSE, RedditMinScore + k, k, "/" \o ToString(k)).data,
                    "news")]

NewsPool(s, n) ==
    [k \in 1..n |-> IF s = "hybrid_news_scanner"
                    THEN NewsStory(PoolEntry(k), "tech")
                    ELSE NewsStoryRss(PoolEntry(k), "tech")]

ViralPool(n) ==
    [k \in 1..n |->
        ViralPost(Post(FALSE, FALSE, ViralMinScore + ViralTop - k, k,
                       "/v" \o ToString(k)).data, "all")]

\* main just before ranked_stories = analyze_with_claude(...)
PromptInit ==
    /\ script \in {"hybrid_news_scanner", "news_scanner_hybrid"}
    /\ m_cfg = AllSet /\ m_error = ""
    /\ pc = "call"
    /\ FetchIdle /\ PersistIdle /\ AnalyzeIdle
    /\ \E n \in 0..MaxNewsPool : m_news = NewsPool(script, n)
    /\ IF script = "hybrid_news_scanner"
       THEN /\ \E n \in 0..MaxSocialPool : m_reddit = SocialPool(n)
            /\ \E n \in 0..ViralTop : m_viral = ViralPool(n)
       ELSE m_reddit = <<>> /\ m_viral = <<>>

PromptNext == AnalyzeCall

SpecPrompt == PromptInit /\ [][PromptNext]_vars

(***************************************************************************)
(* A run whose endpoints may never answer: a call made with a timeout      *)
(* raises when the time is up (the failures of the actions above); a call  *)
(* made without one does not return.                                       *)
(***************************************************************************)
NoTimeout == [none |-> TRUE]

\* the timeout argument of the external call a step of the script makes
CallTimeout(s, call) ==
    CASE call \in {"fetch_reddit_stories", "fetch_viral_reddit"} -> [seconds |-> 10]
      [] call = "fetch_google_news" -> NoTimeout
      [] call = "call" -> IF s = "hybrid_news_scanner" THEN [seconds |-> 90]
                          ELSE [seconds |-> 120]
      [] OTHER -> NoTimeout

Blocked(call) == "blocked in " \o call

\* a source of the adapter never answers and the request has no timeout
FetchBlocks ==
    /\ pc \in Range(Stages(script))
    /\ CallTimeout(script, pc) = NoTimeout
    /\ pc' = Blocked(pc)
    /\ UNCHANGED <<script, fetchVars, persistVars, analyzeVars, mainVars>>

\* the store never answers the upsert of the next record and the request has
\* no timeout
UpsertBlocks ==
    /\ pc = "send"
    /\ \/ /\ p_i < Len(p_stories)
          /\ IsDict(p_stories[p_i + 1])
          /\ ~MissingHeadline(p_stories[p_i + 1])
          /\ ~RecordRaises(script, p_stories[p_i + 1])
       \/ /\ script = "hybrid_news_scanner"
          /\ p_i = Len(p_stories)
          /\ p_j < Len(p_viral)
    /\ CallTimeout(script, "send") = NoTimeout
    /\ pc' = Blocked("send_to_airtable")
    /\ UNCHANGED <<script, fetchVars, persistVars, analyzeVars, mainVars>>

CallsNext ==
    \/ MainValidate
    \/ MainFetch
    \/ FetchBlocks
    \/ AnalyzeCall
    \/ AnalyzeSelect
    \/ AnalyzeExtract
    \/ MainSend
    \/ PersistStory
    \/ PersistViral
    \/ UpsertBlocks
    \/ PersistFinish
    \/ MainExcept
    \/ MainComplete

SpecCalls == Init /\ [][CallsNext]_vars

(***************************************************************************)
(* Claims about the source adapters (checked under SpecFetch).             *)
(***************************************************************************)
IsRedditFn == f_fn \in {"fetch_reddit_stories", "fetch_viral_reddit"}

\* the two sequences hold the same items the same number of times
SameItems(a, b) ==
    /\ Len(a) = Len(b)
    /\ \A x \in Range(a) \cup Range(b) : Count(x, a) = Count(x, b)

\* every item of a is in b, no more often than b holds it
ItemsAmong(a, b) == \A x \in Range(a) : Count(x, a) <= Count(x, b)

\* the raw post a pool item was built from: permalinks identify posts
RawFor(item) ==
    CHOOSE c \in ItemsOf(f_fn) :
        /\ IsDict(c)
        /\ "https://reddit.com" \o Get(Get(c, "data", EmptyDict), "permalink", "") = item.url

C6_QualityGates ==
    IsRedditFn =>
      /\ \A item \in Range(f_stories) \cup Range(f_returned) :
            LET d == RawFor(item).data
            IN  /\ ~("stickied" \in DOMAIN d /\ d.stickied)
                /\ "score" \in DOMAIN d
                /\ d.score >= (IF f_fn = "fetch_viral_reddit" THEN 500 ELSE 100)
                /\ f_fn = "fetch_viral_reddit" => ~("over_18" \in DOMAIN d /\ d.over_18)
      /\ f_stories = f_expect
      /\ pc = "returned" /\ f_fn = "fetch_reddit_stories" => f_returned = f_expect

\* posts were rejected and posts were admitted in one run of each Reddit adapter
C6_Witness ==
    /\ pc = "returned" /\ IsRedditFn /\ ~f_failed
    /\ f_returned # <<>>
    /\ f_nraw > Len(f_stories)

\* C7 as stated: every Candidate an adapter gathers or returns has a non-empty
\* title.
C7_TitleNeverEmpty ==
    \A item \in Range(f_stories) \cup Range(f_returned) : item.title # ""

(***************************************************************************)
(* Claims about send_to_airtable (checked under SpecPersist).              *)
(***************************************************************************)
\* the item carries a headline that is a non-empty text
HasHeadline(story) ==
    /\ "headline" \in DOMAIN story
    /\ "str" \in DOMAIN story.headline
    /\ story.headline.str # ""

Headlined(n) == Cardinality({k \in 1..n : HasHeadline(p_stories[k])})

SentRanked == Cardinality({k \in 1..Len(p_sent) : ~p_sent[k].promoted})

FailedUpserts == Cardinality({k \in 1..Len(p_sent) : ~p_sent[k].ok})

\* C3 as stated: whatever the items and whichever upserts fail,
\* send_to_airtable does not raise, it has issued exactly one upsert for each
\* item handled so far that has a non-empty headline and none for the others,
\* and the count it reports is (items with a headline) - (failed upserts) out
\* of all items received.
C3_PartialPersistence ==
    /\ ~p_raised
    /\ SentRanked = Headlined(p_i)
    /\ pc = "sent" =>
          /\ p_report.success = Headlined(Len(p_stories)) + Len(p_viral) - FailedUpserts
          /\ p_report.total = Len(p_stories) + Len(p_viral)

\* the largest rank among the ranked items, 0 when none carries a number
MaxRank ==
    LET ranks == {p_stories[k].rank.int : k \in {x \in 1..Len(p_stories) :
                     /\ "rank" \in DOMAIN p_stories[x]
                     /\ "int" \in DOMAIN p_stories[x].rank}}
    IN  IF ranks = {} THEN 0 ELSE CHOOSE m \in ranks : \A r \in ranks : r <= m

\* C4 as stated: the k-th promoted item is sent with Rank = (maximum rank of
\* the ranked set) + k.
C4_PromotedRankContinues ==
    \A n \in 1..Len(p_sent) :
        p_sent[n].promoted => p_sent[n].record["Rank"] = Num(MaxRank + (n - SentRanked))

\* C5 as stated: once every record is sent, their Rank values are pairwise
\* distinct positive integers that form 1..n.
C5_RanksContiguous ==
    pc = "sent" =>
        /\ \A n \in 1..Len(p_sent) :
              /\ "Rank" \in DOMAIN p_sent[n].record
              /\ "int" \in DOMAIN p_sent[n].record["Rank"]
        /\ \A n, m \in 1..Len(p_sent) :
              n # m => p_sent[n].record["Rank"] # p_sent[m].record["Rank"]
        /\ {p_sent[n].record["Rank"].int : n \in 1..Len(p_sent)} = 1..Len(p_sent)

(***************************************************************************)
(* Claims about the ranking client (checked under SpecExtract).            *)
(***************************************************************************)
\* the extraction step has run on the selected text
Extracted ==
    \/ pc = "ranked"
    \/ pc = "raised" /\ a_err \in {"NoStructuredArray", "MalformedPayload"}

\* the reply is prose + opening fence + an array payload + closing fence + prose
Wrapped ==
    /\ a_parts.open # "" /\ a_parts.close # ""
    /\ \E p \in ArrayPayloads : p.text = a_parts.payload

PayloadValue == (CHOOSE p \in ArrayPayloads : p.text = a_parts.payload).value

\* no piece of the reply but the fences holds three backquotes in a row
NoStrayFence ==
    \A t \in {a_parts.lead, a_parts.payload, a_parts.trail} :
        \A i \in 1..Len(t) : SubSeq(t, i, Min(i + 2, Len(t))) # "~~~"

\* C8 as stated: for every array payload and any prose around the fences, the
\* outcome of extracting from the wrapped reply is the outcome of extracting
\* from the payload alone.
C8_WrappingIsCosmetic ==
    Extracted /\ Wrapped =>
        [err |-> a_err, stories |-> a_stories] = ExtractArray(a_parts.payload)

\* C8 as amended: when neither the prose nor the payload holds a fence marker
\* of its own, extracting from the wrapped reply yields the array the payload
\* denotes, and so does extracting from the payload alone.
C8_WrappingIsCosmeticNoStrayFence ==
    Extracted /\ Wrapped /\ NoStrayFence =>
        /\ a_err = ""
        /\ a_stories = PayloadValue
        /\ ExtractArray(a_parts.payload) = [err |-> "", stories |-> PayloadValue]

\* a fenced, tagged-or-not reply with prose on both sides gave a non-empty array
C8_Witness ==
    /\ pc = "ranked" /\ Wrapped /\ NoStrayFence
    /\ a_parts.lead # "" /\ a_parts.trail = " ]" /\ a_parts.open = "~~~\n"
    /\ Len(a_stories) = 2

\* the text of the segment the script settles on: the last text block in
\* news_scanner.py, the first in the two hybrid scripts
ChosenText ==
    LET idx == {k \in 1..Len(a_blocks) :
                  "type" \in DOMAIN a_blocks[k] /\ a_blocks[k].type = "text"}
        k == IF script = "news_scanner"
             THEN CHOOSE m \in idx : \A x \in idx : x <= m
             ELSE CHOOSE m \in idx : \A x \in idx : m <= x
    IN  IF "text" \in DOMAIN a_blocks[k] THEN a_blocks[k].text ELSE ""

HasTextBlock ==
    \E k \in 1..Len(a_blocks) : "type" \in DOMAIN a_blocks[k] /\ a_blocks[k].type = "text"

\* C10 as stated: once the segment is selected, the function has failed with
\* the no-text-content error if the reply has no text segment, and otherwise it
\* has gone on to extraction with the text of the chosen segment.
C10_TextSegmentSelection ==
    pc # "select" =>
        IF ~HasTextBlock THEN pc = "raised" /\ a_err = "NoTextContent"
        ELSE a_err # "NoTextContent" /\ a_text = ChosenText

\* C10 as amended: the function fails with the no-text-content error exactly
\* when the reply has no text segment or the chosen text segment is empty;
\* otherwise it goes on to extraction with the text of the chosen segment,
\* whatever the other segments are.
C10_TextSegmentSelectionNonEmpty ==
    pc # "select" =>
        IF ~HasTextBlock \/ ChosenText = ""
        THEN pc = "raised" /\ a_err = "NoTextContent"
        ELSE a_err # "NoTextContent" /\ a_text = ChosenText

\* a reply with a tool block and two different text blocks went on to extraction
C10_Witness ==
    /\ pc = "ranked"
    /\ Len(a_blocks) = 3
    /\ \E k \in 1..3 : a_blocks[k].type # "text"
    /\ \E k, l \in 1..3 : /\ k < l
                          /\ a_blocks[k].type = "text" /\ a_blocks[l].type = "text"
                          /\ a_blocks[k].text = "[1]" /\ a_blocks[l].text = "[2]"
    /\ a_text = "[2]"

(***************************************************************************)
(* Claims about a whole run (checked under Spec).                          *)
(***************************************************************************)
\* the text holds a "[" with a "]" somewhere after it
HasBracketPair(t) ==
    \E i, j \in 1..Len(t) : i < j /\ SubSeq(t, i, i) = "[" /\ SubSeq(t, j, j) = "]"

\* the ranking function is past its extraction step on a selected text
PastExtraction == a_text # "" /\ pc # "extract"

\* C2: whenever the selected reply text, after fence stripping, holds no "["
\* followed later by a "]", the ranking function raises the
\* no-structured-array error, the run ends with that error, the reasoning
\* service has been called exactly once, and no store upsert is issued.
C2_ExtractionFailureStopsRun ==
    (PastExtraction /\ ~HasBracketPair(StripFence(Strip(a_text)))) =>
        /\ a_err = "NoStructuredArray"
        /\ pc \in {"raised", "exited"}
        /\ pc = "exited" => m_error = "NoStructuredArray"
        /\ a_calls = 1
        /\ p_sent = <<>> /\ p_i = 0 /\ p_j = 0

\* a hybrid run with a promoted post in hand ended on a reply whose only
\* brackets are outside the fence, after one call and without any upsert
C2_Witness ==
    /\ pc = "exited" /\ m_error = "NoStructuredArray"
    /\ script = "hybrid_news_scanner" /\ m_viral # <<>>
    /\ a_text = "[see] ~~~\nnone\n~~~"
    /\ a_calls = 1 /\ p_sent = <<>>

\* C9 as stated: whenever the reasoning service has answered with a status
\* outside 2xx, the body prefix is logged, the ranking function has raised,
\* no content of that response is read or extracted, and no upsert is issued.
C9_ServiceFailureIsFatal ==
    (a_status # 0 /\ a_status \notin 200..299) =>
        /\ a_logged
        /\ pc \in {"raised", "exited"} /\ a_err # ""
        /\ a_blocks = <<>> /\ a_text = "" /\ a_stories = <<>>
        /\ p_sent = <<>>

\* every one of the three configuration values is present and not empty
ConfigComplete ==
    \A k \in DOMAIN m_cfg : m_cfg[k] # Null /\ m_cfg[k] # Str("")

ConfigErrors ==
    {"CLAUDE_API_KEY not set", "AIRTABLE_TOKEN not set", "AIRTABLE_BASE_ID not set"}

\* C11: in a run where one of the three configuration values is missing or
\* empty, main ends with a configuration error and no source has been asked,
\* the reasoning service has not been called and no upsert has been issued;
\* in a run where all three are present, no configuration error is raised.
C11_ConfigurationFailFast ==
    /\ ~ConfigComplete =>
          /\ pc \in {"start", "exited"}
          /\ pc = "exited" => m_error \in ConfigErrors
          /\ f_asked = <<>> /\ a_calls = 0 /\ p_sent = <<>>
    /\ ConfigComplete => m_error \notin ConfigErrors

\* a hybrid run whose last configuration value is empty ended on that error
C11_Witness ==
    /\ pc = "exited" /\ script = "hybrid_news_scanner"
    /\ m_cfg["CLAUDE_API_KEY"] = Str("secret") /\ m_cfg["AIRTABLE_TOKEN"] = Str("secret")
    /\ m_cfg["AIRTABLE_BASE_ID"] = Str("")
    /\ m_error = "AIRTABLE_BASE_ID not set"
    /\ f_asked = <<>> /\ a_calls = 0

\* the errors the claim calls fatal, as the ranking function raises them
FatalAnalysisErrors ==
    {"ServiceCallError", "ResponseNotJson", "NoTextContent", "NoStructuredArray",
     "MalformedPayload"}

\* a fatal-class error occurred in the run
FatalOccurred == ~ConfigComplete \/ a_err \in FatalAnalysisErrors

\* C12 as stated: a finished run of main has ended with an error exactly when
\* a fatal-class error occurred (missing configuration, a failed service call,
\* no text content, no structured array, malformed payload); failed sources,
\* headline-less items and failed upserts never make it end with an error.
C12_ProcessOutcome ==
    pc \in {"exited", "complete"} =>
        /\ (m_error # "") <=> FatalOccurred
        /\ pc = "complete" => m_error = ""

(***************************************************************************)
(* Claims about the records sent (checked under SpecPersist).              *)
(***************************************************************************)
\* the items handled so far that carry a non-empty headline, in order
HeadlinedStories == SelectSeq(SubSeq(p_stories, 1, p_i), HasHeadline)

\* the free-text keys of an item and the fields they are sent as
FreeText ==
    { [key |-> "summary", field |-> "Summary"],
      [key |-> "trending_reason", field |-> "Why Trending"],
      [key |-> "comedy_angle", field |-> "Comedy Angle"] }

\* r is text t cut to at most n characters
CutTo(r, t, n) ==
    /\ "str" \in DOMAIN r
    /\ Len(r.str) = (IF Len(t) < n THEN Len(t) ELSE n)
    /\ r.str = SubSeq(t, 1, Len(r.str))

\* the item holds a key whose value cannot be put in the record
HasBadValue(story) ==
    \/ \E k \in {"headline", "summary", "trending_reason", "comedy_angle"} :
          k \in DOMAIN story /\ "str" \notin DOMAIN story[k]
    \/ "sources" \in DOMAIN story /\ "list" \notin DOMAIN story["sources"]

\* C13: for every item with a non-empty headline the record sent has Viral
\* Score 50 when the item has no viral_score, Category "Other" when it has no
\* category, each free-text field empty when the item lacks it, Headline cut
\* to 255 characters and the free-text fields to 5000; and building a record
\* raises only for an item that holds a value of the wrong kind, never for a
\* missing field.
C13_FieldDefaults ==
    /\ Len(HeadlinedStories) = SentRanked
    /\ \A n \in 1..Len(HeadlinedStories) :
          LET story == HeadlinedStories[n]
              fields == p_sent[n].record
          IN  /\ ~p_sent[n].promoted
              /\ "viral_score" \notin DOMAIN story => fields["Viral Score"] = Num(50)
              /\ "category" \notin DOMAIN story => fields["Category"] = Str("Other")
              /\ CutTo(fields["Headline"], story.headline.str, 255)
              /\ \A f \in FreeText :
                    IF f.key \notin DOMAIN story THEN fields[f.field] = Str("")
                    ELSE CutTo(fields[f.field], story[f.key].str, 5000)
    /\ p_raised => HasBadValue(p_stories[p_i + 1])

\* an item with only a headline and an item with over-long texts were sent
C13_Witness ==
    /\ pc = "sent"
    /\ \E n, m \in 1..Len(HeadlinedStories) :
          /\ DOMAIN HeadlinedStories[n] = {"rank", "headline"}
          /\ p_sent[n].record["Summary"] = Str("")
          /\ Len(HeadlinedStories[m].headline.str) > 255
          /\ Len(HeadlinedStories[m].summary.str) > 5000
          /\ Len(p_sent[m].record["Headline"].str) = 255
          /\ Len(p_sent[m].record["Summary"].str) = 5000

\* the keys of an item that are copied to a field without being cut
CopiedKeys ==
    { [key |-> "rank", field |-> "Rank"],
      [key |-> "viral_score", field |-> "Viral Score"],
      [key |-> "category", field |-> "Category"] }

Markers(t) == {i \in 1..Len(t) : i + 2 <= Len(t) /\ SubSeq(t, i, i + 2) = "~~~"}

\* those that are followed by the tag json
JsonMarkers(t) ==
    {i \in Markers(t) : i + 6 <= Len(t) /\ SubSeq(t, i + 3, i + 6) = "json"}

First(S) == CHOOSE m \in S : \A x \in S : m <= x

Last(S) == CHOOSE m \in S : \A x \in S : x <= m

\* t from position start up to the next marker, or to its end
ContentFrom(t, start) ==
    LET later == {i \in Markers(t) : i >= start}
    IN  IF later = {} THEN SubSeq(t, start, Len(t))
        ELSE SubSeq(t, start, First(later) - 1)

\* t without the blanks and line breaks around it
Trimmed(t) ==
    LET solid == {i \in 1..Len(t) : SubSeq(t, i, i) \notin {" ", "\n", "\t"}}
    IN  IF solid = {} THEN "" ELSE SubSeq(t, First(solid), Last(solid))

\* where the content after the first opening fence of t starts
AfterFirstFence(t) ==
    IF First(Markers(t)) \in JsonMarkers(t) THEN First(Markers(t)) + 7
    ELSE First(Markers(t)) + 3

\* C15 as stated: for a reply text with a fence marker and a closing fence
\* after the first one, the text handed to the bracket search is the content
\* between the first opening fence (tagged json or not) and the next fence.
C15_FirstFenceContent ==
    (/\ Extracted
     /\ Markers(a_text) # {}
     /\ \E i \in Markers(a_text) : i >= AfterFirstFence(a_text)) =>
        a_search = ContentFrom(a_text, AfterFirstFence(a_text))

\* C15 as amended: when the text holds a fence tagged json, the text handed to
\* the bracket search is what lies between the first such fence and the next
\* fence marker (or the end of the text); otherwise, when it holds a fence
\* marker, what lies between the first marker and the next one (or the end);
\* otherwise the whole trimmed text.
C15_JsonFenceFirst ==
    Extracted =>
        a_search =
            LET t == Trimmed(a_text)
            IN  IF JsonMarkers(t) # {} THEN ContentFrom(t, First(JsonMarkers(t)) + 7)
                ELSE IF Markers(t) # {} THEN ContentFrom(t, First(Markers(t)) + 3)
                ELSE t

\* a reply with a shell snippet before its json fence gave the json content
C15_Witness ==
    /\ pc = "ranked"
    /\ a_parts.lead = "~~~sh\nls\n~~~\n" /\ a_parts.open = "~~~json\n"
    /\ a_parts.payload = "[1, 2]" /\ a_parts.close = "\n~~~"
    /\ a_search = "\n[1, 2]\n"
    /\ a_stories = <<Num(1), Num(2)>>

\* C16: whenever the text left after fence stripping holds a "[" with a "]"
\* somewhere after it, the text handed to the array parser runs from the
\* first "[" of that text to its last "]", both included.
C16_BracketSpan ==
    (Extracted /\ HasBracketPair(a_search)) =>
        LET opens == {i \in 1..Len(a_search) : SubSeq(a_search, i, i) = "["}
            closes == {i \in 1..Len(a_search) : SubSeq(a_search, i, i) = "]"}
        IN  a_match = SubSeq(a_search, First(opens), Last(closes))

\* an array with a line break inside and commentary before and after it
C16_Witness ==
    /\ pc = "ranked"
    /\ a_search = "Here:\n[3,\n 4]\nDone." /\ a_match = "[3,\n 4]"
    /\ a_stories = <<Num(3), Num(4)>>

(***************************************************************************)
(* Claim about the promoted set (checked under SpecFetch).                 *)
(***************************************************************************)
\* upvotes plus comments of a gated post
Composite(item) == item.score + item.comments

\* C17: fetch_viral_reddit returns at most 3 items, each a different entry of
\* the gated pool, ordered by score + comments descending with equal ones in
\* the order they were met, and no gated entry that is left out has a higher
\* composite than a returned one.
C17_PromotedSelection ==
    (pc = "returned" /\ f_fn = "fetch_viral_reddit") =>
        /\ Len(f_returned) <= 3
        /\ Len(f_returned) = (IF Len(f_stories) < 3 THEN Len(f_stories) ELSE 3)
        /\ f_stories = f_expect
        /\ \E at \in [1..Len(f_returned) -> 1..Len(f_stories)] :
              /\ \A k \in DOMAIN at : f_returned[k] = f_stories[at[k]]
              /\ \A k, l \in DOMAIN at :
                    k < l =>
                      \/ Composite(f_returned[k]) > Composite(f_returned[l])
                      \/ /\ Composite(f_returned[k]) = Composite(f_returned[l])
                         /\ at[k] < at[l]
              /\ \A j \in 1..Len(f_stories) :
                    (\A k \in DOMAIN at : at[k] # j) =>
                        \A k \in DOMAIN at :
                            Composite(f_stories[j]) <= Composite(f_returned[k])

\* four gated posts, two of them equal in composite, gave a top 3 that is not
\* the first three met
C17_Witness ==
    /\ pc = "returned" /\ f_fn = "fetch_viral_reddit"
    /\ Len(f_stories) = 4 /\ Len(f_returned) = 3
    /\ f_returned # SubSeq(f_stories, 1, 3)
    /\ f_returned[1] # f_returned[2]
    /\ Composite(f_returned[1]) = Composite(f_returned[2])
    /\ Composite(f_returned[2]) > Composite(f_returned[3])

(***************************************************************************)
(* Claims about the prompt.                                                *)
(***************************************************************************)
\* the first n items of the pool, numbered from 1 in pool order
FrontOf(entries, pool) ==
    /\ Len(entries) <= Len(pool)
    /\ \A i \in 1..Len(entries) :
          /\ entries[i].n = i
          /\ entries[i].title = pool[i].title
          /\ entries[i].url = pool[i].url

\* C18: whatever the size of the pool, the prompt of a sent request enumerates at
\* most 15 social and at most 30 syndicated-news items, each group taken from
\* the front of the pool's group in pool order and numbered from 1.
C18_BoundedPrompt ==
    a_calls >= 1 =>
        /\ Len(a_prompt.reddit) <= 15
        /\ Len(a_prompt.news) <= 30
        /\ FrontOf(a_prompt.reddit, m_reddit)
        /\ FrontOf(a_prompt.news, m_news)

(***************************************************************************)
(* Claims about blocking.                                                  *)
(***************************************************************************)
\* C19: every external call of a run is made with a bounded timeout, so no run
\* is ever left waiting in a call for an endpoint that never answers: the
\* silence surfaces as a failure and the run goes on to its end.
C19_NoCallBlocksForever ==
    /\ pc \notin {Blocked(c) : c \in {"fetch_reddit_stories", "fetch_google_news",
                                      "fetch_viral_reddit", "call",
                                      "send_to_airtable"}}
    /\ pc \in Range(Stages(script)) \cup {"call", "send"} =>
          CallTimeout(script, pc) # NoTimeout

====
